---- MODULE Spec2Model ----
(***************************************************************************)
(* Cycle-state logging of the 808x CPU core (cpu_808x/logging.rs):         *)
(* trace_csv_line, cycle_state_string, cycle_state_tokens and              *)
(* cycle_trace_header over one snapshot of the CPU's bus and BIU state.    *)
(*                                                                         *)
(* Strings are TLA+ strings; format!'s width and padding rules are         *)
(* modelled by FmtDec, FmtHex and FmtStr (a width is a minimum width).     *)
(* t_stamp and t_step_h are f64 in the emulator and are modelled as        *)
(* integer tick counts.                                                    *)
(***************************************************************************)
EXTENDS Integers, Sequences, FiniteSets, TLC

VARIABLES
    cpu,        \* the fields of Cpu that logging.rs reads (and, for address_bus, writes)
    microcode,  \* the constants of cpu_808x::microcode: sentinels and table length
    trace,      \* the trace sink: every line handed to trace_emit, in order
    ret         \* the last call made and the value it returned

vars == <<cpu, microcode, trace, ret>>

(***************************************************************************)
(* Bounds of the model.                                                    *)
(***************************************************************************)
\* trace_csv_line is called at most this many times in one behaviour
MaxCsvCalls == 2
\* DmaState::Operating(n) is explored for n in 0..MaxOperating
MaxOperating == 5
\* wait_states is explored in 0..MaxWaitStates
MaxWaitStates == 2

(***************************************************************************)
(* format! helpers.                                                        *)
(***************************************************************************)
Digit(d) == SubSeq("0123456789ABCDEF", d + 1, d + 1)

RECURSIVE Digits(_, _)
Digits(n, base) ==
    IF n < base THEN Digit(n) ELSE Digits(n \div base, base) \o Digit(n % base)

RECURSIVE PadLeft(_, _, _)
PadLeft(s, w, ch) == IF Len(s) >= w THEN s ELSE PadLeft(ch \o s, w, ch)

RECURSIVE PadRight(_, _, _)
PadRight(s, w, ch) == IF Len(s) >= w THEN s ELSE PadRight(s \o ch, w, ch)

\* {:0wX} of an unsigned integer: upper-case hex, zero-padded to at least w
FmtHex(n, w) == PadLeft(Digits(n, 16), w, "0")

\* {:0w} of an unsigned integer ({} is w = 0)
FmtDec(n, w) == PadLeft(Digits(n, 10), w, "0")

\* {:w}, {:<w} and {:0w} of a str, String or char: left-aligned, space-filled
FmtStr(s, w) == PadRight(s, w, " ")

RECURSIVE Join(_)
Join(parts) == IF parts = <<>> THEN "" ELSE Head(parts) \o Join(Tail(parts))

(***************************************************************************)
(* Bit operations on unsigned integers.                                    *)
(***************************************************************************)
RECURSIVE BitAnd(_, _)
BitAnd(a, b) ==
    IF a = 0 \/ b = 0 THEN 0
    ELSE (a % 2) * (b % 2) + 2 * BitAnd(a \div 2, b \div 2)

RECURSIVE BitOr(_, _)
BitOr(a, b) ==
    IF a = 0 THEN b
    ELSE IF b = 0 THEN a
    ELSE (IF a % 2 = 1 \/ b % 2 = 1 THEN 1 ELSE 0) + 2 * BitOr(a \div 2, b \div 2)

Shl(a, k) == a * 2 ^ k

\* bits lo..hi of a
Bits(a, lo, hi) == (a \div 2 ^ lo) % 2 ^ (hi - lo + 1)

(***************************************************************************)
(* Enumerations of cpu_808x used by logging.rs.                            *)
(***************************************************************************)
TCycle == {"Tinit", "Ti", "T1", "T2", "T3", "T4", "Tw"}
Segment == {"None", "ES", "CS", "SS", "DS"}
QueueOp == {"Idle", "First", "Flush", "Subsequent"}
BusStatus ==
    {"InterruptAck", "IoRead", "IoWrite", "Halt", "CodeFetch", "MemRead", "MemWrite", "Passive"}
BiuStateNew == {"ToIdle", "ToPrefetch", "ToEu", "Idle", "Prefetch", "Eu"}
DmaStateTag == {"Idle", "TimerTrigger", "Dreq", "Hrq", "HoldA", "Operating"}

\* `self.last_queue_op as u8`: the discriminant, in declaration order
QueueOpCode(q) ==
    CASE q = "Idle" -> 0 [] q = "First" -> 1 [] q = "Flush" -> 2 [] q = "Subsequent" -> 3

\* `self.bus_status as u8`: the discriminant, in declaration order
BusStatusCode(s) ==
    CASE s = "InterruptAck" -> 0 [] s = "IoRead" -> 1 [] s = "IoWrite" -> 2
      [] s = "Halt" -> 3 [] s = "CodeFetch" -> 4 [] s = "MemRead" -> 5
      [] s = "MemWrite" -> 6 [] s = "Passive" -> 7

\* MICROCODE_SRC_8088[i]: the mnemonic text of microcode line i
MICROCODE_SRC_8088(i) == "mc" \o FmtHex(i, 3)

\* MICROCODE_NUL: the placeholder of a lookup beyond the table
MICROCODE_NUL == "NUL"

(***************************************************************************)
(* trace_csv_line                                                          *)
(***************************************************************************)
\* the mask of the back-patch, 0b1100_1111_1111_1111_1111
SEG_MASK == 851967

Bool01(b) == IF b THEN 1 ELSE 0

\* let seg_n = match self.bus_segment
seg_n(bus_segment) ==
    CASE bus_segment = "ES" -> 0
      [] bus_segment = "SS" -> 1
      [] bus_segment \in {"CS", "None"} -> 2
      [] bus_segment = "DS" -> 3

\* BackPatch with a fault: the segment code is OR-ed in without clearing bits 16-17
BackPatchNoMask(address_bus, n) == BitOr(address_bus, Shl(n, 16))

\* (self.address_bus & 0b1100_1111_1111_1111_1111) | (seg_n << 16)
BackPatch(address_bus, n) == BitOr(BitAnd(address_bus, SEG_MASK), Shl(n, 16))

\* PatchedAddressBus with a fault: the back-patch does not test address-latch-enable
PatchedAddressBusAlways(c) == BackPatch(c.address_bus, seg_n(c.bus_segment))

\* the value of self.address_bus after the `if !self.i8288.ale` block
PatchedAddressBus(c) ==
    IF ~c.i8288.ale THEN BackPatch(c.address_bus, seg_n(c.bus_segment)) ELSE c.address_bus

\* (vs, hs, den, brd): 0 unless a primary video device reports its sync signals
VideoSync(c) ==
    IF c.video.present
    THEN [k \in 1..4 |-> Bool01(c.video.sync[k])]
    ELSE [k \in 1..4 |-> 0]

\* trace_emit(&format!("{},{:05X},1,{},{},{},{},{},{},{},{},{},{}", ...)), on the
\* snapshot as patched
CsvLineRising(c) ==
    LET v == VideoSync(c) IN
    Join(<< FmtDec(c.t_stamp, 0), ",", FmtHex(c.address_bus, 5), ",1,",
            FmtDec(Bool01(c.ready), 0), ",",
            FmtDec(QueueOpCode(c.last_queue_op), 0), ",",
            FmtDec(BusStatusCode(c.bus_status), 0), ",",
            FmtDec(0, 0), ",",
            FmtDec(Bool01(c.intr), 0), ",",
            FmtDec(Bool01(c.dma_state.tag = "Dreq"), 0), ",",
            FmtDec(v[1], 0), ",", FmtDec(v[2], 0), ",", FmtDec(v[3], 0), ",",
            FmtDec(v[4], 0) >>)

\* CsvLineFalling with a fault: the falling-edge line repeats the rising-edge time
CsvLineFallingSameTime(c) ==
    LET v == VideoSync(c) IN
    Join(<< FmtDec(c.t_stamp, 0), ",", FmtHex(c.address_bus, 5), ",0,",
            FmtDec(Bool01(c.ready), 0), ",",
            FmtDec(QueueOpCode(c.last_queue_op), 0), ",",
            FmtDec(BusStatusCode(c.bus_status), 0), ",",
            FmtDec(0, 0), ",",
            FmtDec(Bool01(c.intr), 0), ",",
            FmtDec(Bool01(c.dma_state.tag = "Dreq"), 0), ",",
            FmtDec(v[1], 0), ",", FmtDec(v[2], 0), ",", FmtDec(v[3], 0), ",",
            FmtDec(v[4], 0) >>)

\* trace_emit(&format!("{},{:05X},0,{},{},{},{},{},{},{},{},{},{}", ...))
CsvLineFalling(c) ==
    LET v == VideoSync(c) IN
    Join(<< FmtDec(c.t_stamp + c.t_step_h, 0), ",", FmtHex(c.address_bus, 5), ",0,",
            FmtDec(Bool01(c.ready), 0), ",",
            FmtDec(QueueOpCode(c.last_queue_op), 0), ",",
            FmtDec(BusStatusCode(c.bus_status), 0), ",",
            FmtDec(0, 0), ",",
            FmtDec(Bool01(c.intr), 0), ",",
            FmtDec(Bool01(c.dma_state.tag = "Dreq"), 0), ",",
            FmtDec(v[1], 0), ",", FmtDec(v[2], 0), ",", FmtDec(v[3], 0), ",",
            FmtDec(v[4], 0) >>)

(***************************************************************************)
(* cycle_state_string                                                      *)
(***************************************************************************)
ale_str(c) == IF c.i8288.ale THEN "A:" ELSE "  "

\* seg_str with a fault: the label is not suppressed in T1
seg_str_in_t1(c) ==
    CASE c.bus_segment = "None" -> "  "
      [] c.bus_segment = "SS" -> "SS"
      [] c.bus_segment = "ES" -> "ES"
      [] c.bus_segment = "CS" -> "CS"
      [] c.bus_segment = "DS" -> "DS"

\* blank in T1; otherwise the label of bus_segment
seg_str(c) ==
    IF c.t_cycle # "T1"
    THEN CASE c.bus_segment = "None" -> "  "
           [] c.bus_segment = "SS" -> "SS"
           [] c.bus_segment = "ES" -> "ES"
           [] c.bus_segment = "CS" -> "CS"
           [] c.bus_segment = "DS" -> "DS"
    ELSE "  "

q_op_chr(c) ==
    CASE c.last_queue_op = "Idle" -> " "
      [] c.last_queue_op = "First" -> "F"
      [] c.last_queue_op = "Flush" -> "E"
      [] c.last_queue_op = "Subsequent" -> "S"

q_preload_char(c) == IF c.queue.has_preload THEN "*" ELSE " "

biu_state_new_str(c) ==
    CASE c.biu_state_new.tag = "ToIdle" -> ">I "
      [] c.biu_state_new.tag = "ToPrefetch" -> ">PF"
      [] c.biu_state_new.tag = "ToEu" -> ">EU"
      [] c.biu_state_new.tag = "Idle" -> "I  "
      [] c.biu_state_new.tag = "Prefetch" -> "PF "
      [] c.biu_state_new.tag = "Eu" -> "EU "

\* rs_chr, aws_chr, ws_chr, ior_chr, aiow_chr, iow_chr: the letter when the line is set
sig_chr(line, letter) == IF line THEN letter ELSE "."

bus_str(c) ==
    CASE c.bus_status_latch = "InterruptAck" -> "IRQA"
      [] c.bus_status_latch = "IoRead" -> "IOR "
      [] c.bus_status_latch = "IoWrite" -> "IOW "
      [] c.bus_status_latch = "Halt" -> "HALT"
      [] c.bus_status_latch = "CodeFetch" -> "CODE"
      [] c.bus_status_latch = "MemRead" -> "MEMR"
      [] c.bus_status_latch = "MemWrite" -> "MEMW"
      [] c.bus_status_latch = "Passive" -> "PASV"

t_str(c) ==
    CASE c.t_cycle = "Tinit" -> "Tx"
      [] c.t_cycle = "Ti" -> "Ti"
      [] c.t_cycle = "T1" -> "T1"
      [] c.t_cycle = "T2" -> "T2"
      [] c.t_cycle = "T3" -> "T3"
      [] c.t_cycle = "T4" -> "T4"
      [] c.t_cycle = "Tw" -> "Tw"

is_reading(c) == c.i8288.mrdc \/ c.i8288.iorc
is_writing(c) == c.i8288.mwtc \/ c.i8288.iowc

xfer_str(c) ==
    IF is_reading(c) THEN "<-r " \o FmtHex(c.data_bus, 2)
    ELSE IF is_writing(c) THEN "w-> " \o FmtHex(c.data_bus, 2)
    ELSE "      "

q_read_str(c) ==
    IF c.last_queue_op = "First" \/ c.last_queue_op = "Subsequent"
    THEN "<-q " \o FmtHex(c.last_queue_byte, 2)
    ELSE "      "

instr_str(c) ==
    IF c.last_queue_op = "First"
    THEN Join(<< "[", FmtHex(c.cs, 4), ":", FmtHex(c.ip, 4), "] ", c.i.text, " (",
                 FmtDec(c.i.size, 0), ") " >>)
    ELSE ""

\* microcode_line_str with a fault: the MC_NONE arm is missing
microcode_line_str_no_none(c, mc) ==
    IF c.trace_instr = mc.MC_JUMP THEN "JMP"
    ELSE IF c.trace_instr = mc.MC_RTN THEN "RET"
    ELSE IF c.trace_instr = mc.MC_CORR THEN "COR"
    ELSE FmtHex(c.trace_instr, 3)

\* the sentinels are tested in the order MC_JUMP, MC_RTN, MC_CORR, MC_NONE
microcode_line_str(c, mc) ==
    IF c.trace_instr = mc.MC_JUMP THEN "JMP"
    ELSE IF c.trace_instr = mc.MC_RTN THEN "RET"
    ELSE IF c.trace_instr = mc.MC_CORR THEN "COR"
    ELSE IF c.trace_instr = mc.MC_NONE THEN "   "
    ELSE FmtHex(c.trace_instr, 3)

microcode_op_str(c, mc) ==
    IF c.trace_instr < mc.len THEN MICROCODE_SRC_8088(c.trace_instr) ELSE MICROCODE_NUL

tx_cycle(c) == IF c.is_last_wait THEN "x" ELSE "."

ready_chr(c) == IF c.wait_states > 0 THEN "." ELSE "R"

dma_count_str(c, dma_count) ==
    FmtDec(dma_count, 2) \o " " \o FmtDec(c.dram_refresh_cycle_num, 2)

dma_str(c, dma_count) ==
    CASE c.dma_state.tag = "Idle" -> dma_count_str(c, dma_count)
      [] c.dma_state.tag = "TimerTrigger" -> "TIMR"
      [] c.dma_state.tag = "Dreq" -> "DREQ"
      [] c.dma_state.tag = "Hrq" -> "HRQ "
      [] c.dma_state.tag = "HoldA" -> "HLDA"
      [] c.dma_state.tag = "Operating" ->
            CASE c.dma_state.n = 4 -> "S1"
              [] c.dma_state.n = 3 -> "S2"
              [] c.dma_state.n = 2 -> "S3"
              [] c.dma_state.n = 1 -> "S4"
              [] OTHER -> "S?"

\* for c in &self.trace_comment { push_str(&format!("; {}", c)) }
RECURSIVE Comments(_)
Comments(cs) == IF cs = <<>> THEN "" ELSE "; " \o Head(cs) \o Comments(Tail(cs))

\* the format! of the `if short` branch
ShortLine(c, mc, dma_count) ==
    Join(<< FmtDec(c.instr_cycle, 4), " ", FmtStr(ale_str(c), 2), "[",
            FmtHex(c.address_bus, 5), "] ", FmtStr(seg_str(c), 2), " ",
            ready_chr(c), FmtDec(c.wait_states, 0),
            " M:", sig_chr(c.i8288.mrdc, "R"), sig_chr(c.i8288.amwc, "A"),
            sig_chr(c.i8288.mwtc, "W"),
            " I:", sig_chr(c.i8288.iorc, "R"), sig_chr(c.i8288.aiowc, "A"),
            sig_chr(c.i8288.iowc, "W"),
            " |", FmtStr(dma_str(c, dma_count), 5), "| ",
            FmtStr(bus_str(c), 4), " ", FmtStr(t_str(c), 2), " ", FmtStr(xfer_str(c), 6),
            " | ", FmtStr(biu_state_new_str(c), 4), "| ", FmtStr(c.fetch_state, 14), "| ",
            FmtStr(q_op_chr(c), 1), FmtDec(c.last_queue_len, 1), FmtStr(q_preload_char(c), 1),
            "[", FmtStr(c.queue.to_string, 8), "] ", q_read_str(c),
            " | ", FmtStr(microcode_line_str(c, mc), 3), " | ", instr_str(c) >>)

\* the format! of the `else` branch
LongLine(c, mc, dma_count) ==
    Join(<< FmtDec(c.cycle_num, 8), ":", FmtDec(c.instr_cycle, 4), " ",
            FmtStr(ale_str(c), 2), "[", FmtHex(c.address_bus, 5), "] ",
            FmtStr(seg_str(c), 2), " ",
            ready_chr(c), FmtDec(c.wait_states, 0), tx_cycle(c),
            " M:", sig_chr(c.i8288.mrdc, "R"), sig_chr(c.i8288.amwc, "A"),
            sig_chr(c.i8288.mwtc, "W"),
            " I:", sig_chr(c.i8288.iorc, "R"), sig_chr(c.i8288.aiowc, "A"),
            sig_chr(c.i8288.iowc, "W"),
            " |", FmtStr(dma_str(c, dma_count), 5), "|  | ",
            FmtStr(bus_str(c), 4), " ", FmtStr(t_str(c), 2), " ", FmtStr(xfer_str(c), 6),
            " | ", FmtStr(biu_state_new_str(c), 4), "| ", FmtStr(c.fetch_state, 14), "| ",
            FmtStr(q_op_chr(c), 1), FmtDec(c.last_queue_len, 1), FmtStr(q_preload_char(c), 1),
            "[", FmtStr(c.queue.to_string, 8), "] ", q_read_str(c),
            " | ", microcode_line_str(c, mc), ": ", microcode_op_str(c, mc),
            " | ", instr_str(c) >>)

\* the String that cycle_state_string(dma_count, short) returns
CycleStateStringValue(c, mc, dma_count, short) ==
    (IF short THEN ShortLine(c, mc, dma_count) ELSE LongLine(c, mc, dma_count))
        \o Comments(c.trace_comment)

(***************************************************************************)
(* cycle_state_tokens.  Every token is a SyntaxToken::Text and is modelled  *)
(* by its text.                                                            *)
(***************************************************************************)
ale_token(c) == IF c.i8288.ale THEN "A" ELSE " "

seg_token(c) ==
    IF c.t_cycle # "T1"
    THEN CASE c.bus_segment = "None" -> "  "
           [] c.bus_segment = "SS" -> "SS"
           [] c.bus_segment = "ES" -> "ES"
           [] c.bus_segment = "CS" -> "CS"
           [] c.bus_segment = "DS" -> "DS"
    ELSE "  "

q_op_token(c) ==
    CASE c.last_queue_op = "Idle" -> " "
      [] c.last_queue_op = "First" -> "F"
      [] c.last_queue_op = "Flush" -> "E"
      [] c.last_queue_op = "Subsequent" -> "S"

biu_state_new_token(c) ==
    CASE c.biu_state_new.tag = "ToIdle" -> ">I "
      [] c.biu_state_new.tag = "ToPrefetch" -> ">PF"
      [] c.biu_state_new.tag = "ToEu" -> ">EU"
      [] c.biu_state_new.tag = "Idle" -> "I  "
      [] c.biu_state_new.tag = "Prefetch" -> "PF "
      [] c.biu_state_new.tag = "Eu" -> "EU "

bus_str_token(c) ==
    CASE c.bus_status_latch = "InterruptAck" -> "IRQA"
      [] c.bus_status_latch = "IoRead" -> "IOR "
      [] c.bus_status_latch = "IoWrite" -> "IOW "
      [] c.bus_status_latch = "Halt" -> "HALT"
      [] c.bus_status_latch = "CodeFetch" -> "CODE"
      [] c.bus_status_latch = "MemRead" -> "MEMR"
      [] c.bus_status_latch = "MemWrite" -> "MEMW"
      [] c.bus_status_latch = "Passive" -> "PASV"

t_str_token(c) ==
    CASE c.t_cycle = "Tinit" -> "Tx"
      [] c.t_cycle = "Ti" -> "Ti"
      [] c.t_cycle = "T1" -> "T1"
      [] c.t_cycle = "T2" -> "T2"
      [] c.t_cycle = "T3" -> "T3"
      [] c.t_cycle = "T4" -> "T4"
      [] c.t_cycle = "Tw" -> "Tw"

xfer_token(c) ==
    LET reading == c.i8288.mrdc \/ c.i8288.iorc
        writing == c.i8288.mwtc \/ c.i8288.iowc
    IN  IF reading THEN "<-r " \o FmtHex(c.data_bus, 2)
        ELSE IF writing THEN "w-> " \o FmtHex(c.data_bus, 2)
        ELSE "      "

q_read_token(c) ==
    IF c.last_queue_op = "First" \/ c.last_queue_op = "Subsequent"
    THEN "<-q " \o FmtHex(c.last_queue_byte, 2)
    ELSE "      "

instr_str_token(c) ==
    IF c.last_queue_op = "First"
    THEN Join(<< "[", FmtHex(c.cs, 4), ":", FmtHex(c.ip, 4), "] ", c.i.text, " (",
                 FmtDec(c.i.size, 0), ") " >>)
    ELSE ""

microcode_line_token(c, mc) ==
    IF c.trace_instr = mc.MC_JUMP THEN "JMP"
    ELSE IF c.trace_instr = mc.MC_RTN THEN "RET"
    ELSE IF c.trace_instr = mc.MC_CORR THEN "COR"
    ELSE IF c.trace_instr = mc.MC_NONE THEN "   "
    ELSE FmtHex(c.trace_instr, 3)

microcode_op_token(c, mc) ==
    IF c.trace_instr < mc.len THEN MICROCODE_SRC_8088(c.trace_instr) ELSE MICROCODE_NUL

\* dma_str_token with a fault: Operating(n) is labelled S<n>
dma_str_token_forward(c, dma_count) ==
    CASE c.dma_state.tag = "Idle" ->
            FmtDec(dma_count, 2) \o " " \o FmtDec(c.dram_refresh_cycle_num, 2)
      [] c.dma_state.tag = "TimerTrigger" -> "TIMR"
      [] c.dma_state.tag = "Dreq" -> "DREQ"
      [] c.dma_state.tag = "Hrq" -> "HRQ "
      [] c.dma_state.tag = "HoldA" -> "HLDA"
      [] c.dma_state.tag = "Operating" ->
            CASE c.dma_state.n = 1 -> "S1"
              [] c.dma_state.n = 2 -> "S2"
              [] c.dma_state.n = 3 -> "S3"
              [] c.dma_state.n = 4 -> "S4"
              [] OTHER -> "S?"

dma_str_token(c, dma_count) ==
    CASE c.dma_state.tag = "Idle" ->
            FmtDec(dma_count, 2) \o " " \o FmtDec(c.dram_refresh_cycle_num, 2)
      [] c.dma_state.tag = "TimerTrigger" -> "TIMR"
      [] c.dma_state.tag = "Dreq" -> "DREQ"
      [] c.dma_state.tag = "Hrq" -> "HRQ "
      [] c.dma_state.tag = "HoldA" -> "HLDA"
      [] c.dma_state.tag = "Operating" ->
            CASE c.dma_state.n = 4 -> "S1"
              [] c.dma_state.n = 3 -> "S2"
              [] c.dma_state.n = 2 -> "S3"
              [] c.dma_state.n = 1 -> "S4"
              [] OTHER -> "S?"

bus_signal_token(c) ==
    Join(<< "M:", sig_chr(c.i8288.mrdc, "R"), sig_chr(c.i8288.amwc, "A"),
            sig_chr(c.i8288.mwtc, "W"),
            " I:", sig_chr(c.i8288.iorc, "R"), sig_chr(c.i8288.aiowc, "A"),
            sig_chr(c.i8288.iowc, "W") >>)

\* the vec! that cycle_state_tokens(dma_count, short) returns; short is not read
token_vec(c, mc, dma_count, short) ==
    << FmtDec(c.cycle_num, 4),
       FmtDec(c.instr_cycle, 4),
       ale_token(c),
       FmtHex(c.address_bus, 5),
       seg_token(c),
       IF c.wait_states > 0 THEN "." ELSE "R",
       FmtDec(c.wait_states, 0),
       IF c.is_last_wait THEN "x" ELSE ".",
       bus_signal_token(c),
       dma_str_token(c, dma_count),
       bus_str_token(c),
       t_str_token(c),
       xfer_token(c),
       biu_state_new_token(c),
       c.fetch_state,
       q_op_token(c),
       FmtDec(c.last_queue_len, 0),
       c.queue.to_string,
       q_read_token(c),
       microcode_line_token(c, mc),
       microcode_op_token(c, mc),
       instr_str_token(c),
       Comments(c.trace_comment) >>

(***************************************************************************)
(* cycle_trace_header                                                      *)
(***************************************************************************)
\* TraceHeader with a fault: the titles MCPC and Microcode are exchanged
TraceHeaderSwapped ==
    << "Cycle", "icyc", "ALE", "Addr  ", "Seg", "Rdy", "WS", "Tx", "8288       ",
       "DMA  ", "Bus ", "T ", "Xfer  ", "BIU", "Fetch       ", "Qop", "Ql",
       "Queue   ", "Qrd   ", "Microcode", "MCPC", "Instr                   ",
       "Comments" >>

TraceHeader ==
    << "Cycle", "icyc", "ALE", "Addr  ", "Seg", "Rdy", "WS", "Tx", "8288       ",
       "DMA  ", "Bus ", "T ", "Xfer  ", "BIU", "Fetch       ", "Qop", "Ql",
       "Queue   ", "Qrd   ", "MCPC", "Microcode", "Instr                   ",
       "Comments" >>

(***************************************************************************)
(* The snapshots explored.  Each family varies the fields one group of     *)
(* columns reads, jointly and over every combination, on DefaultCpu.       *)
(***************************************************************************)
I8288Off ==
    [ale |-> FALSE, mrdc |-> FALSE, amwc |-> FALSE, mwtc |-> FALSE,
     iorc |-> FALSE, aiowc |-> FALSE, iowc |-> FALSE]

DefaultCpu ==
    [i8288 |-> I8288Off,
     bus_segment |-> "None",
     address_bus |-> 0,
     data_bus |-> 0,
     t_cycle |-> "Ti",
     wait_states |-> 0,
     is_last_wait |-> FALSE,
     ready |-> TRUE,
     intr |-> FALSE,
     bus_status |-> "Passive",
     bus_status_latch |-> "Passive",
     biu_state_new |-> [tag |-> "Idle", n |-> 0],
     fetch_state |-> "Idle",
     last_queue_op |-> "Idle",
     last_queue_byte |-> 0,
     last_queue_len |-> 0,
     queue |-> [has_preload |-> FALSE, to_string |-> ""],
     cs |-> 0,
     ip |-> 0,
     i |-> [text |-> "nop", size |-> 1],
     trace_instr |-> 0,
     dma_state |-> [tag |-> "Idle", n |-> 0],
     dma_aen |-> FALSE,
     dram_refresh_cycle_num |-> 0,
     video |-> [present |-> FALSE, sync |-> <<FALSE, FALSE, FALSE, FALSE>>],
     t_stamp |-> 0,
     t_step_h |-> 1,
     cycle_num |-> 0,
     instr_cycle |-> 0,
     trace_comment |-> <<>>]

\* 20-bit addresses: every value of bits 16-17 and of bits 18-19 over three low words
Addresses == { lo + 65536 * s + 262144 * h : lo \in {0, 4660, 65535}, s \in 0..3, h \in 0..3 }

\* the dma_count arguments: below, at and beyond two decimal digits, and the u16 maximum
DmaCounts == {3, 100, 65535}

DmaStates ==
    { [tag |-> t, n |-> 0] : t \in DmaStateTag \ {"Operating"} }
        \cup { [tag |-> "Operating", n |-> k] : k \in 0..MaxOperating }

\* MC_JUMP, MC_RTN, MC_CORR, MC_NONE and MICROCODE_SRC_8088.len(): sentinels inside
\* the table, beyond it, and in no numeric order
MicrocodeLayouts ==
    { [MC_JUMP |-> 508, MC_RTN |-> 509, MC_CORR |-> 510, MC_NONE |-> 511, len |-> 512],
      [MC_JUMP |-> 512, MC_RTN |-> 513, MC_CORR |-> 514, MC_NONE |-> 515, len |-> 512],
      [MC_JUMP |-> 4095, MC_RTN |-> 16, MC_CORR |-> 600, MC_NONE |-> 0, len |-> 512] }

DefaultLayout ==
    [MC_JUMP |-> 508, MC_RTN |-> 509, MC_CORR |-> 510, MC_NONE |-> 511, len |-> 512]

\* microcode trace values: 3-hex-digit addresses around every sentinel and table end
TraceInstrs == {0, 10, 15, 16, 17, 300, 600} \cup 507..516 \cup {4094, 4095}

PatchSnapshots ==
    { [DefaultCpu EXCEPT !.i8288.ale = a, !.bus_segment = sg, !.address_bus = ad,
                         !.t_cycle = "T3"] :
        a \in BOOLEAN, sg \in Segment, ad \in Addresses }

LabelSnapshots ==
    { [DefaultCpu EXCEPT !.i8288.ale = a, !.bus_segment = sg, !.t_cycle = t,
                         !.wait_states = w, !.address_bus = 262143] :
        a \in BOOLEAN, sg \in Segment, t \in TCycle, w \in 0..MaxWaitStates }

SignalSnapshots ==
    { [DefaultCpu EXCEPT !.i8288 = sig, !.data_bus = d, !.t_cycle = "T3"] :
        sig \in [ale : {FALSE}, mrdc : BOOLEAN, amwc : BOOLEAN, mwtc : BOOLEAN,
                 iorc : BOOLEAN, aiowc : BOOLEAN, iowc : BOOLEAN],
        d \in {0, 10, 255} }

DmaSnapshots ==
    { [DefaultCpu EXCEPT !.dma_state = ds, !.dram_refresh_cycle_num = r] :
        ds \in DmaStates, r \in {0, 7, 100} }

MicrocodeSnapshots == { [DefaultCpu EXCEPT !.trace_instr = t] : t \in TraceInstrs }

LineSnapshots ==
    { [DefaultCpu EXCEPT !.ready = rd, !.intr = it, !.dma_state = [tag |-> dt, n |-> 0],
                         !.video = v] :
        rd \in BOOLEAN, it \in BOOLEAN, dt \in {"Idle", "Dreq", "Hrq"},
        v \in [present : {TRUE}, sync : [1..4 -> BOOLEAN]]
                \cup {[present |-> FALSE, sync |-> <<FALSE, FALSE, FALSE, FALSE>>]} }

StatusSnapshots ==
    { [DefaultCpu EXCEPT !.last_queue_op = q, !.bus_status = b, !.t_stamp = ts,
                         !.t_step_h = th] :
        q \in QueueOp, b \in BusStatus, ts \in {0, 999}, th \in {1, 105} }

QueueSnapshots ==
    { [DefaultCpu EXCEPT !.last_queue_op = q, !.last_queue_byte = b,
                         !.queue = [has_preload |-> p, to_string |-> qs],
                         !.last_queue_len = Len(qs) \div 2,
                         !.cs = 256, !.ip = 16] :
        q \in QueueOp, b \in {0, 144, 255}, p \in BOOLEAN, qs \in {"", "90C3"} }

MiscSnapshots ==
    { [DefaultCpu EXCEPT !.cycle_num = n] : n \in {7, 12345, 123456789} }
        \cup { [DefaultCpu EXCEPT !.instr_cycle = n] : n \in {7, 12345} }
        \cup { [DefaultCpu EXCEPT !.is_last_wait = TRUE, !.wait_states = 1, !.t_cycle = "Tw"] }
        \cup { [DefaultCpu EXCEPT !.biu_state_new = [tag |-> t, n |-> k]] :
                 t \in BiuStateNew, k \in 0..1 }
        \cup { [DefaultCpu EXCEPT !.fetch_state = f] : f \in {"Scheduled(2)", "InProgress"} }
        \cup { [DefaultCpu EXCEPT !.bus_status_latch = b] : b \in BusStatus }
        \cup { [DefaultCpu EXCEPT !.trace_comment = cm] :
                 cm \in {<<"IRQ">>, <<"IRQ", "HALT">>} }
        \cup { [DefaultCpu EXCEPT !.dma_aen = TRUE] }

Snapshots ==
    PatchSnapshots \cup LabelSnapshots \cup SignalSnapshots \cup DmaSnapshots
        \cup LineSnapshots \cup StatusSnapshots \cup QueueSnapshots \cup MiscSnapshots

(***************************************************************************)
(* The state machine: a snapshot, and the four calls made on it in any     *)
(* order.                                                                  *)
(***************************************************************************)
NoRet == [op |-> "none", dma_count |-> 0, short |-> FALSE, str |-> "", vec |-> <<>>]

Init ==
    /\ \/ cpu \in Snapshots /\ microcode = DefaultLayout
       \/ cpu \in MicrocodeSnapshots /\ microcode \in MicrocodeLayouts
    /\ trace = <<>>
    /\ ret = NoRet

\* pub fn trace_csv_line(&mut self)
trace_csv_line ==
    /\ Len(trace) < 2 * MaxCsvCalls
    /\ cpu' = [cpu EXCEPT !.address_bus = PatchedAddressBus(cpu)]
    /\ trace' = trace \o << CsvLineRising(cpu'), CsvLineFalling(cpu') >>
    /\ ret' = [NoRet EXCEPT !.op = "trace_csv_line"]
    /\ UNCHANGED microcode

\* pub fn cycle_state_string(&self, dma_count: u16, short: bool) -> String
cycle_state_string ==
    \E dma_count \in DmaCounts, short \in BOOLEAN :
        /\ ret' = [op |-> "cycle_state_string", dma_count |-> dma_count, short |-> short,
                   str |-> CycleStateStringValue(cpu, microcode, dma_count, short),
                   vec |-> <<>>]
        /\ UNCHANGED <<cpu, microcode, trace>>

\* pub fn cycle_state_tokens(&self, dma_count: u16, short: bool) -> Vec<SyntaxToken>
cycle_state_tokens ==
    \E dma_count \in DmaCounts, short \in BOOLEAN :
        /\ ret' = [op |-> "cycle_state_tokens", dma_count |-> dma_count, short |-> short,
                   str |-> "", vec |-> token_vec(cpu, microcode, dma_count, short)]
        /\ UNCHANGED <<cpu, microcode, trace>>

\* pub fn cycle_trace_header(&self) -> Vec<String>
cycle_trace_header ==
    /\ ret' = [NoRet EXCEPT !.op = "cycle_trace_header", !.vec = TraceHeader]
    /\ UNCHANGED <<cpu, microcode, trace>>

Next ==
    \/ trace_csv_line
    \/ cycle_state_string
    \/ cycle_state_tokens
    \/ cycle_trace_header

Spec == Init /\ [][Next]_vars

(***************************************************************************)
(* Reading rendered text back: used by the properties only.                *)
(***************************************************************************)
CharAt(s, k) == SubSeq(s, k, k)

\* the first position >= from at which s holds ch, or 0
RECURSIVE IndexOf(_, _, _)
IndexOf(s, ch, from) ==
    IF from > Len(s) THEN 0
    ELSE IF CharAt(s, from) = ch THEN from
    ELSE IndexOf(s, ch, from + 1)

\* s cut at every ch
RECURSIVE Split(_, _)
Split(s, ch) ==
    LET k == IndexOf(s, ch, 1) IN
    IF k = 0 THEN << s >>
    ELSE << SubSeq(s, 1, k - 1) >> \o Split(SubSeq(s, k + 1, Len(s)), ch)

IsDigitOf(chr, base) == \E d \in 0..(base - 1) : Digit(d) = chr

DigitValue(chr) == CHOOSE d \in 0..15 : Digit(d) = chr

AllDigits(s, base) == Len(s) > 0 /\ \A k \in 1..Len(s) : IsDigitOf(CharAt(s, k), base)

RECURSIVE Parse(_, _)
Parse(s, base) ==
    IF Len(s) = 0 THEN 0
    ELSE base * Parse(SubSeq(s, 1, Len(s) - 1), base) + DigitValue(CharAt(s, Len(s)))

RECURSIVE TrimRight(_)
TrimRight(s) ==
    IF Len(s) > 0 /\ CharAt(s, Len(s)) = " " THEN TrimRight(SubSeq(s, 1, Len(s) - 1)) ELSE s

\* the hardware code of a bus segment on address bits 16-17
SegmentCode(sg) ==
    CASE sg = "ES" -> 0 [] sg = "SS" -> 1 [] sg = "CS" -> 2 [] sg = "None" -> 2 [] sg = "DS" -> 3

\* the address a text line renders between its first '[' and ']'
LineAddress(line) ==
    Parse(SubSeq(line, IndexOf(line, "[", 1) + 1, IndexOf(line, "]", 1) - 1), 16)

\* the address column of a CSV line
CsvAddress(line) == Parse(Split(line, ",")[2], 16)

\* a step in which trace_csv_line ran
CsvStep == ret'.op = "trace_csv_line" /\ trace' # trace

(***************************************************************************)
(* C1                                                                      *)
(***************************************************************************)
\* the 13 columns of a CSV line at time t and clock phase clk, for snapshot c
CsvColumnsOk(line, c, t, clk) ==
    LET col == Split(line, ",") IN
    /\ Len(col) = 13
    /\ AllDigits(col[1], 10) /\ Parse(col[1], 10) = t
    /\ Len(col[2]) = 5 /\ AllDigits(col[2], 16) /\ Parse(col[2], 16) = c.address_bus
    /\ col[3] = clk
    /\ col[4] = (IF c.ready THEN "1" ELSE "0")
    /\ AllDigits(col[5], 10) /\ Parse(col[5], 10) = QueueOpCode(c.last_queue_op)
    /\ AllDigits(col[6], 10) /\ Parse(col[6], 10) = BusStatusCode(c.bus_status)
    /\ col[7] = "0"
    /\ col[8] = (IF c.intr THEN "1" ELSE "0")
    /\ col[9] = (IF c.dma_state.tag = "Dreq" THEN "1" ELSE "0")
    /\ \A k \in 1..4 :
          col[9 + k] = (IF c.video.present /\ c.video.sync[k] THEN "1" ELSE "0")

\* C1: every call of trace_csv_line appends exactly two lines to the trace sink: the
\* first at time t_stamp with clock phase 1, the second at time t_stamp + t_step_h
\* with clock phase 0, both with the same 11 other columns, in the fixed order
\* time, address (5 hex digits), clock, ready, queue op, bus status, 0, intr, dreq,
\* vsync, hsync, display enable, border.
C1_CsvEmitsTwoLines ==
    [][ CsvStep =>
          /\ Len(trace') = Len(trace) + 2
          /\ SubSeq(trace', 1, Len(trace)) = trace
          /\ CsvColumnsOk(trace'[Len(trace) + 1], cpu', cpu.t_stamp, "1")
          /\ CsvColumnsOk(trace'[Len(trace) + 2], cpu', cpu.t_stamp + cpu.t_step_h, "0")
          /\ LET a == Split(trace'[Len(trace) + 1], ",")
                 b == Split(trace'[Len(trace) + 2], ",")
             IN  \A k \in (1..13) \ {1, 3} : a[k] = b[k]
      ]_vars

\* a call has emitted its two lines half a step of 105 apart, with a video device set
C1_Witness ==
    /\ Len(trace) = 2
    /\ cpu.t_stamp = 999 /\ cpu.t_step_h = 105
    /\ cpu.bus_status = "MemRead" /\ cpu.last_queue_op = "Subsequent"

(***************************************************************************)
(* C2                                                                      *)
(***************************************************************************)
\* C2: with address-latch-enable deasserted, every address rendered (by the text
\* line, by the address token and by both CSV lines) carries the hardware code of
\* the current bus segment on bits 16-17, in whatever order the calls were made.
C2_EveryRenderSeesPatchedSegment ==
    ~cpu.i8288.ale =>
        /\ ret.op = "cycle_state_string" =>
              Bits(LineAddress(ret.str), 16, 17) = SegmentCode(cpu.bus_segment)
        /\ ret.op = "cycle_state_tokens" =>
              Bits(Parse(ret.vec[4], 16), 16, 17) = SegmentCode(cpu.bus_segment)
        /\ \A k \in 1..Len(trace) :
              Bits(CsvAddress(trace[k]), 16, 17) = SegmentCode(cpu.bus_segment)

(***************************************************************************)
(* C3                                                                      *)
(***************************************************************************)
\* C3: with address-latch-enable deasserted, the back-patch of trace_csv_line sets
\* bits 16-17 of the 20-bit address bus to the segment code (ES=0, SS=1, CS or
\* None=2, DS=3), keeps bits 0-15 and 18-19, and a second application with the same
\* segment leaves the address bus as the first left it.
C3_BackPatchIdempotent ==
    [][ (CsvStep /\ ~cpu.i8288.ale) =>
          /\ Bits(cpu'.address_bus, 16, 17) = SegmentCode(cpu.bus_segment)
          /\ Bits(cpu'.address_bus, 0, 15) = Bits(cpu.address_bus, 0, 15)
          /\ Bits(cpu'.address_bus, 18, 19) = Bits(cpu.address_bus, 18, 19)
          /\ cpu'.address_bus < 2 ^ 20
          /\ (Len(trace) > 0 => cpu'.address_bus = cpu.address_bus)
      ]_vars

\* the back-patch has run twice on segment ES over an address with bits 18-19 set
C3_Witness ==
    /\ Len(trace) = 4
    /\ ~cpu.i8288.ale
    /\ cpu.bus_segment = "ES"
    /\ cpu.address_bus = 3 * 262144 + 4660

(***************************************************************************)
(* C4                                                                      *)
(***************************************************************************)
\* C4: cycle_state_string, cycle_state_tokens and cycle_trace_header change no
\* field of the snapshot; trace_csv_line changes at most bits 16-17 of address_bus,
\* and nothing at all while address-latch-enable is asserted.
C4_OnlyBackPatchMutates ==
    [][ /\ ret'.op \in {"cycle_state_string", "cycle_state_tokens", "cycle_trace_header"}
            => cpu' = cpu
        /\ ret'.op = "trace_csv_line" =>
              /\ [cpu' EXCEPT !.address_bus = cpu.address_bus] = cpu
              /\ cpu'.address_bus - 65536 * Bits(cpu'.address_bus, 16, 17)
                    = cpu.address_bus - 65536 * Bits(cpu.address_bus, 16, 17)
              /\ cpu.i8288.ale => cpu' = cpu
      ]_vars

\* trace_csv_line has run with address-latch-enable asserted on an address whose
\* bits 16-17 differ from the code of the segment, and a render call followed
C4_Witness ==
    /\ Len(trace) = 2
    /\ cpu.i8288.ale
    /\ cpu.bus_segment = "DS"
    /\ Bits(cpu.address_bus, 16, 17) = 1
    /\ ret.op = "cycle_state_tokens"

(***************************************************************************)
(* The columns of a text line.                                             *)
(***************************************************************************)
\* the sections of a text line between its '|' delimiters
LineSections(line) == Split(line, "|")

\* the long line has one more (empty) section after the DMA column
LongShift(short) == IF short THEN 0 ELSE 1

LineSeg(line) ==
    LET p == IndexOf(line, "]", 1) IN SubSeq(line, p + 2, p + 3)

LineReady(line) ==
    LET p == IndexOf(line, "]", 1) IN CharAt(line, p + 5)

LineDma(line) == LineSections(line)[2]

LineXfer(line, short) == SubSeq(LineSections(line)[3 + LongShift(short)], 10, 15)

\* the microcode section, without its leading and trailing blank
LineMcSection(line, short) ==
    LET sec == LineSections(line)[7 + LongShift(short)] IN SubSeq(sec, 2, Len(sec) - 1)

LineMc(line, short) ==
    LET sec == LineMcSection(line, short) IN
    IF short THEN sec ELSE SubSeq(sec, 1, IndexOf(sec, ":", 1) - 1)

LineMnemonic(line) ==
    LET sec == LineMcSection(line, FALSE) IN SubSeq(sec, IndexOf(sec, ":", 1) + 2, Len(sec))

IsLine == ret.op = "cycle_state_string"
IsTokens == ret.op = "cycle_state_tokens"

(***************************************************************************)
(* C5                                                                      *)
(***************************************************************************)
SegLabel(c) ==
    IF c.t_cycle = "T1" \/ c.bus_segment = "None" THEN "  " ELSE c.bus_segment

\* C5: in the text line and in the token list the 2-character segment label is
\* blank exactly when the T-cycle is T1 or the segment is None, and otherwise names
\* the segment; in T1 with address-latch-enable deasserted, segment CS and no wait
\* state the label is blank, the ready character is 'R', and the back-patch leaves
\* 2 on address bits 16-17.
C5_SegmentLabel ==
    /\ IsLine => LineSeg(ret.str) = SegLabel(cpu)
    /\ IsTokens => ret.vec[5] = SegLabel(cpu)
    /\ (cpu.t_cycle = "T1" /\ ~cpu.i8288.ale /\ cpu.bus_segment = "CS"
            /\ cpu.wait_states = 0) =>
          /\ IsLine => LineSeg(ret.str) = "  " /\ LineReady(ret.str) = "R"
          /\ IsTokens => ret.vec[5] = "  " /\ ret.vec[6] = "R"
          /\ Len(trace) > 0 => Bits(cpu.address_bus, 16, 17) = 2

\* the text line has been rendered in T1 on segment CS after the back-patch
C5_Witness ==
    /\ IsLine
    /\ cpu.t_cycle = "T1" /\ ~cpu.i8288.ale /\ cpu.bus_segment = "CS"
    /\ cpu.wait_states = 0
    /\ Len(trace) > 0
    /\ LineAddress(ret.str) = 2 * 65536 + 65535

(***************************************************************************)
(* C6                                                                      *)
(***************************************************************************)
\* the transfer field with all four write lines counted as write-type
XferAllWrites(c) ==
    IF c.i8288.mrdc \/ c.i8288.iorc THEN "<-r " \o FmtHex(c.data_bus, 2)
    ELSE IF c.i8288.mwtc \/ c.i8288.iowc \/ c.i8288.amwc \/ c.i8288.aiowc
         THEN "w-> " \o FmtHex(c.data_bus, 2)
    ELSE "      "

\* C6: the 6-character transfer field is "<-r XX" when a read-type line is
\* asserted, otherwise "w-> XX" when a write-type line is asserted (the advanced
\* memory-write and advanced I/O-write lines included), otherwise 6 blanks.
C6_TransferField ==
    /\ IsLine => LineXfer(ret.str, ret.short) = XferAllWrites(cpu)
    /\ IsTokens => ret.vec[13] = XferAllWrites(cpu)

(***************************************************************************)
(* C7                                                                      *)
(***************************************************************************)
DmaLabel(ds) ==
    CASE ds.tag = "TimerTrigger" -> "TIMR"
      [] ds.tag = "Dreq" -> "DREQ"
      [] ds.tag = "Hrq" -> "HRQ"
      [] ds.tag = "HoldA" -> "HLDA"
      [] ds.tag = "Operating" /\ ds.n = 4 -> "S1"
      [] ds.tag = "Operating" /\ ds.n = 3 -> "S2"
      [] ds.tag = "Operating" /\ ds.n = 2 -> "S3"
      [] ds.tag = "Operating" /\ ds.n = 1 -> "S4"
      [] OTHER -> "S?"

\* C7: in the text line and in the token list DMA state Operating(n) renders S1,
\* S2, S3, S4 for n = 4, 3, 2, 1 and "S?" for any other n; outside state Idle the
\* label is fixed by the state alone, whatever dma_count and the refresh cycle
\* number are.
C7_DmaOperatingLabel ==
    cpu.dma_state.tag # "Idle" =>
        /\ IsLine => TrimRight(LineDma(ret.str)) = DmaLabel(cpu.dma_state)
        /\ IsTokens => TrimRight(ret.vec[10]) = DmaLabel(cpu.dma_state)

\* Operating(5) has been rendered as tokens with a 3-digit refresh cycle number
C7_Witness ==
    /\ IsTokens
    /\ cpu.dma_state = [tag |-> "Operating", n |-> 5]
    /\ cpu.dram_refresh_cycle_num = 100
    /\ ret.dma_count = 65535
    /\ ret.vec[10] = "S?"

(***************************************************************************)
(* C8                                                                      *)
(***************************************************************************)
McColumnOk(col, c, mc) ==
    /\ Len(col) = 3
    /\ IF c.trace_instr = mc.MC_JUMP THEN col = "JMP"
       ELSE IF c.trace_instr = mc.MC_RTN THEN col = "RET"
       ELSE IF c.trace_instr = mc.MC_CORR THEN col = "COR"
       ELSE IF c.trace_instr = mc.MC_NONE THEN col = "   "
       ELSE AllDigits(col, 16) /\ Parse(col, 16) = c.trace_instr

Mnemonic(c, mc) ==
    IF c.trace_instr < mc.len THEN MICROCODE_SRC_8088(c.trace_instr) ELSE MICROCODE_NUL

C9_TokensCarryLongLineFields ==
    IsTokens =>
        /\ Parse(ret.vec[1], 10) = cpu.cycle_num
        /\ ret.vec[8] = tx_cycle(cpu)
        /\ ret.vec[21] = microcode_op_str(cpu, microcode)
        /\ \A p \in BOOLEAN :
              token_vec([cpu EXCEPT !.queue.has_preload = p], microcode,
                        ret.dma_count, ret.short) = ret.vec
                  => p = cpu.queue.has_preload

(***************************************************************************)
(* C10                                                                     *)
(***************************************************************************)
\* the field a column title names, as the token list presents it
TokenNamed(title, c, mc, dma_count) ==
    CASE title = "Cycle" -> FmtDec(c.cycle_num, 4)
      [] title = "icyc" -> FmtDec(c.instr_cycle, 4)
      [] title = "ALE" -> (IF c.i8288.ale THEN "A" ELSE " ")
      [] title = "Addr" -> FmtHex(c.address_bus, 5)
      [] title = "Seg" -> seg_str(c)
      [] title = "Rdy" -> ready_chr(c)
      [] title = "WS" -> FmtDec(c.wait_states, 0)
      [] title = "Tx" -> tx_cycle(c)
      [] title = "8288" ->
            Join(<< "M:", sig_chr(c.i8288.mrdc, "R"), sig_chr(c.i8288.amwc, "A"),
                    sig_chr(c.i8288.mwtc, "W"), " I:", sig_chr(c.i8288.iorc, "R"),
                    sig_chr(c.i8288.aiowc, "A"), sig_chr(c.i8288.iowc, "W") >>)
      [] title = "DMA" -> dma_str(c, dma_count)
      [] title = "Bus" -> bus_str(c)
      [] title = "T" -> t_str(c)
      [] title = "Xfer" -> xfer_str(c)
      [] title = "BIU" -> biu_state_new_str(c)
      [] title = "Fetch" -> c.fetch_state
      [] title = "Qop" -> q_op_chr(c)
      [] title = "Ql" -> FmtDec(c.last_queue_len, 0)
      [] title = "Queue" -> c.queue.to_string
      [] title = "Qrd" -> q_read_str(c)
      [] title = "MCPC" -> microcode_line_str(c, mc)
      [] title = "Microcode" -> microcode_op_str(c, mc)
      [] title = "Instr" -> instr_str(c)
      [] title = "Comments" -> Comments(c.trace_comment)
      [] OTHER -> "?"

ColumnTitles ==
    << "Cycle", "icyc", "ALE", "Addr", "Seg", "Rdy", "WS", "Tx", "8288", "DMA", "Bus",
       "T", "Xfer", "BIU", "Fetch", "Qop", "Ql", "Queue", "Qrd", "MCPC", "Microcode",
       "Instr", "Comments" >>

\* C10: for every snapshot, dma_count and short, cycle_state_tokens returns as many
\* tokens as cycle_trace_header returns titles, the titles are Cycle, icyc, ALE,
\* Addr, Seg, Rdy, WS, Tx, 8288, DMA, Bus, T, Xfer, BIU, Fetch, Qop, Ql, Queue, Qrd,
\* MCPC, Microcode, Instr, Comments in that order, and the token at each position
\* is the field its title names.
C10_TokensMatchHeader ==
    /\ ret.op = "cycle_trace_header" =>
          /\ Len(ret.vec) = Len(ColumnTitles)
          /\ \A k \in 1..Len(ret.vec) : TrimRight(ret.vec[k]) = ColumnTitles[k]
          /\ \A dc \in DmaCounts, sh \in BOOLEAN :
                Len(token_vec(cpu, microcode, dc, sh)) = Len(ret.vec)
    /\ IsTokens =>
          /\ Len(ret.vec) = Len(TraceHeader)
          /\ \A k \in 1..Len(ret.vec) :
                ret.vec[k] = TokenNamed(TrimRight(TraceHeader[k]), cpu, microcode,
                                        ret.dma_count)

\* the tokens of an opcode fetch have been returned, MCPC and Microcode differing
C10_Witness ==
    /\ IsTokens
    /\ Len(ret.vec) = 23
    /\ cpu.last_queue_op = "First" /\ cpu.last_queue_byte = 144
    /\ ret.vec[19] = "<-q 90"
    /\ ret.vec[20] # ret.vec[21]

(***************************************************************************)
(* C11                                                                     *)
(***************************************************************************)
\* C11: in the short and in the long text line the DMA column between its '|'
\* delimiters is exactly 5 characters wide for every DMA state, every dma_count in
\* 0..65535 and every refresh cycle number; in state Idle it is the DMA count and
\* the refresh cycle number, 2 decimal digits each, one blank between them
\* (dma_count 3 and refresh cycle 7 give "03 07").
C11_DmaColumnWidth ==
    IsLine =>
        LET col == LineDma(ret.str) IN
        /\ Len(col) = 5
        /\ cpu.dma_state.tag = "Idle" =>
              /\ AllDigits(SubSeq(col, 1, 2), 10)
              /\ Parse(SubSeq(col, 1, 2), 10) = ret.dma_count
              /\ CharAt(col, 3) = " "
              /\ AllDigits(SubSeq(col, 4, 5), 10)
              /\ Parse(SubSeq(col, 4, 5), 10) = cpu.dram_refresh_cycle_num
        /\ (cpu.dma_state.tag = "Idle" /\ ret.dma_count = 3
                /\ cpu.dram_refresh_cycle_num = 7) => col = "03 07"

====
